---- MODULE Spec2Model ----
(***************************************************************************)
(* The test server of graphql/handler/testserver: the executor New() and   *)
(* NewError() install, the response handlers it returns, and the two       *)
(* trigger senders that pace the deferred and subscription handlers over   *)
(* the unbuffered channels next and completeSubscription.                  *)
(* With it, builder.buildInterface of codegen: the order in which the      *)
(* possible types of an interface become its Implementors.                 *)
(***************************************************************************)
EXTENDS Integers, Sequences, FiniteSets, TLC

\* ---------------------------------------------------------------- bounds
NumOps == 2         \* operations executed on one server
NumSenders == 2     \* goroutines that call the Send... methods
MaxCalls == 3       \* invocations of the response handlers, over all operations
MaxSends == 3       \* calls of the Send... methods, over all senders

Ops == 1..NumOps
Senders == 1..NumSenders

\* ------------------------------------------------------------ input data
Servers == {"New", "NewError"}
Kinds == {"query", "mutation", "subscription", "other"}

\* RawQuery as a sequence of characters
QueryPlain == <<"{", "@", "d", "e", "f", "}">>
QueryDefer == <<"{", "n", "@", "d", "e", "f", "e", "r", "}">>
RawQueries == {QueryPlain, QueryDefer}

MarkerDefer == <<"@", "d", "e", "f", "e", "r">>

\* the marker is looked for at the start of the text only
ContainsAtStart(s, sub) ==
    Len(s) >= Len(sub) /\ SubSeq(s, 1, Len(sub)) = sub

\* strings.Contains(s, sub)
Contains(s, sub) ==
    \E i \in 0..(Len(s) - Len(sub)) : SubSeq(s, i + 1, i + Len(sub)) = sub

\* ------------------------------------------------------------- responses
Nil == [isNil |-> TRUE]
Response(data, hasNext, errors) ==
    [isNil |-> FALSE, data |-> data, hasNext |-> hasNext, errors |-> errors]

\* graphql.ErrorResponse(ctx, msg): a response carrying the one error
ErrorResponse(msg) == Response("absent", "absent", <<msg>>)

\* ------------------------------------------------------------- variables
VARIABLES
    server,           \* which constructor built the TestServer
    kind,             \* opCtx.Operation.Operation of each operation
    raw,              \* opCtx.RawQuery of each operation
    handler,          \* the graphql.ResponseHandler ExecFunc returned
    initialResponse,  \* captured by the deferred handler
    ran,              \* captured by the query handlers
    oneshot,          \* captured by the graphql.OneShot handler
    ctxDone,          \* the ctx ExecFunc was called with is cancelled
    callCtxDone,      \* the context passed to the running invocation is cancelled
    pc,               \* "idle", or "suspended" inside the handler's select
    panicked,         \* the handler invocation ended in panic(err)
    resolved,         \* the field contexts the single-shot resolver ran in
    out,              \* per operation, what each finished invocation returned
    sender,           \* "idle", or the channel the sender is blocked on
    sends,            \* Send... calls started
    delivered,        \* sends on next that a handler received
    completed,        \* sends on completeSubscription that a handler received
    warnings,         \* "WARNING: no active subscription" lines printed
    possibleTypes,    \* what b.Schema.GetPossibleTypes(typ) returned
    implementors,     \* the slice buildInterface sorts and ranges over
    Implementors,     \* i.Implementors
    idx,              \* position of the range loop
    bpc               \* where buildInterface is: "off", "sort", "range", "done", "error"

vars == <<server, kind, raw, handler, initialResponse, ran, oneshot, ctxDone,
          callCtxDone, pc, panicked, resolved, out, sender, sends, delivered,
          completed, warnings, possibleTypes, implementors, Implementors,
          idx, bpc>>

opVars == <<kind, raw, handler, resolved>>
sendVars == <<sender, sends, delivered, completed, warnings>>
serverVars == <<server, kind, raw, handler, initialResponse, ran, oneshot,
                ctxDone, callCtxDone, pc, panicked, resolved, out, sender,
                sends, delivered, completed, warnings>>
buildVars == <<possibleTypes, implementors, Implementors, idx, bpc>>

NoHandler == [strat |-> "none", msg |-> ""]

\* ------------------------------------------------------------- executors
\* the mutation case falls into the default message
NewExecFuncOneMessage(k, q) ==
    CASE k = "query" ->
           IF Contains(q, MarkerDefer)
           THEN [strat |-> "deferred", msg |-> ""]
           ELSE [strat |-> "single", msg |-> ""]
      [] k = "subscription" ->
           [strat |-> "subscription", msg |-> ""]
      [] OTHER ->
           [strat |-> "oneshot", msg |-> "unsupported GraphQL operation"]

\* subscriptions are rejected like mutations
NewExecFuncSubRejected(k, q) ==
    CASE k = "query" ->
           IF Contains(q, MarkerDefer)
           THEN [strat |-> "deferred", msg |-> ""]
           ELSE [strat |-> "single", msg |-> ""]
      [] k = "mutation" ->
           [strat |-> "oneshot", msg |-> "mutations are not supported"]
      [] k = "subscription" ->
           [strat |-> "oneshot", msg |-> "subscription are not supported"]
      [] OTHER ->
           [strat |-> "oneshot", msg |-> "unsupported GraphQL operation"]

\* New(): the ExecFunc closure, by operation kind and raw query
NewExecFunc(k, q) ==
    CASE k = "query" ->
           IF Contains(q, MarkerDefer)
           THEN [strat |-> "deferred", msg |-> ""]
           ELSE [strat |-> "single", msg |-> ""]
      [] k = "mutation" ->
           [strat |-> "oneshot", msg |-> "mutations are not supported"]
      [] k = "subscription" ->
           [strat |-> "subscription", msg |-> ""]
      [] OTHER ->
           [strat |-> "oneshot", msg |-> "unsupported GraphQL operation"]

\* NewError(): the ExecFunc closure
NewErrorExecFunc(k, q) ==
    CASE k = "query" ->
           [strat |-> "errQuery", msg |-> ""]
      [] k = "mutation" ->
           [strat |-> "oneshot", msg |-> "mutations are not supported"]
      [] k = "subscription" ->
           [strat |-> "oneshot", msg |-> "subscription are not supported"]
      [] OTHER ->
           [strat |-> "oneshot", msg |-> "unsupported GraphQL operation"]

Blocking(o) == handler[o].strat \in {"deferred", "subscription"}

\* completeSubscription is nil on a NewError server: a send on it never
\* finds a receiver
ChanOpen(ch) == ch = "next" \/ server = "New"

\* no operation executed, no sender started
NoOperation ==
    /\ kind = [o \in Ops |-> "none"]
    /\ raw = [o \in Ops |-> <<>>]
    /\ handler = [o \in Ops |-> NoHandler]
    /\ initialResponse = [o \in Ops |-> FALSE]
    /\ ran = [o \in Ops |-> FALSE]
    /\ oneshot = [o \in Ops |-> FALSE]
    /\ ctxDone = [o \in Ops |-> FALSE]
    /\ callCtxDone = [o \in Ops |-> FALSE]
    /\ resolved = [o \in Ops |-> <<>>]
    /\ pc = [o \in Ops |-> "idle"]
    /\ panicked = [o \in Ops |-> FALSE]
    /\ out = [o \in Ops |-> <<>>]
    /\ sender = [s \in Senders |-> "idle"]
    /\ sends = 0
    /\ delivered = 0
    /\ completed = 0
    /\ warnings = 0

\* buildInterface not called
NoBuild ==
    /\ possibleTypes = <<>>
    /\ implementors = <<>>
    /\ Implementors = <<>>
    /\ idx = 0
    /\ bpc = "off"

Init ==
    /\ server \in Servers
    /\ NoOperation
    /\ NoBuild

\* operations differ only in kind and text: they are numbered in this order
Rank(k, q) ==
    CASE k = "query" -> IF q = QueryDefer THEN 1 ELSE 2
      [] k = "subscription" -> 3
      [] k = "mutation" -> 4
      [] OTHER -> 5

\* ExecFunc(ctx): the executor picks the handler of a new operation; only
\* the query case reads RawQuery, the other kinds are run on one text
ExecFunc(o, k, q) ==
    /\ handler[o].strat = "none"
    /\ k # "query" => q = QueryPlain
    /\ \A p \in Ops : p < o => Rank(kind[p], raw[p]) <= Rank(k, q)
    /\ \A p \in Ops : p < o => handler[p].strat # "none"
    /\ kind' = [kind EXCEPT ![o] = k]
    /\ raw' = [raw EXCEPT ![o] = q]
    /\ handler' = [handler EXCEPT ![o] =
                     IF server = "New" THEN NewExecFunc(k, q)
                                       ELSE NewErrorExecFunc(k, q)]
    /\ initialResponse' = [initialResponse EXCEPT ![o] = handler'[o].strat = "deferred"]
    /\ ran' = [ran EXCEPT ![o] = FALSE]
    /\ oneshot' = [oneshot EXCEPT ![o] = FALSE]
    /\ UNCHANGED buildVars
    /\ UNCHANGED <<server, ctxDone, callCtxDone, pc, panicked, resolved, out>>
    /\ UNCHANGED sendVars

\* ---------------------------------------------------- handler outcomes
NameNull == "{name:null}"
NameTest == "{name:test}"

\* the final part is swallowed instead of returned
DeferredNextDropsFinal(init) ==
    IF init
    THEN [resp |-> Response(NameNull, "true", <<>>), init |-> FALSE]
    ELSE [resp |-> Nil, init |-> init]

\* initialResponse is never cleared
DeferredNextKeepsPhase(init) ==
    IF init
    THEN [resp |-> Response(NameNull, "true", <<>>), init |-> init]
    ELSE [resp |-> Response(NameTest, "false", <<>>), init |-> init]

\* deferred handler, case <-next: the response and the new initialResponse
DeferredNext(init) ==
    IF init
    THEN [resp |-> Response(NameNull, "true", <<>>), init |-> FALSE]
    ELSE [resp |-> Response(NameTest, "false", <<>>), init |-> init]

\* the subscription response marked as a final deferred part
SubscriptionNextHasNext == Response(NameTest, "false", <<>>)

\* subscription handler, case <-next
SubscriptionNext == Response(NameTest, "absent", <<>>)

\* complete flushes the final payload instead of closing
OnCompleteFlushes == Response(NameTest, "false", <<>>)

\* either handler, case <-completeSubscription
OnComplete == Nil

\* either handler, case <-ctx.Done()
OnCtxDone == Nil

\* what the select of a deferred or subscription handler yields on case c
SelectCase(o, c) ==
    CASE c = "ctx" -> [resp |-> OnCtxDone, init |-> initialResponse[o]]
      [] c = "complete" -> [resp |-> OnComplete, init |-> initialResponse[o]]
      [] c = "next" ->
           IF handler[o].strat = "deferred"
           THEN DeferredNext(initialResponse[o])
           ELSE [resp |-> SubscriptionNext, init |-> initialResponse[o]]

\* one finished invocation: the select case taken and what it returned
Returned(c, resp) == [case |-> c, resp |-> resp]

\* the invocation of o takes case c of its select and returns
Finish(o, c) ==
    LET r == SelectCase(o, c) IN
    /\ out' = [out EXCEPT ![o] = Append(@, Returned(c, r.resp))]
    /\ initialResponse' = [initialResponse EXCEPT ![o] = r.init]
    /\ pc' = [pc EXCEPT ![o] = "idle"]
    /\ callCtxDone' = [callCtxDone EXCEPT ![o] = FALSE]

\* invocations that have returned or are suspended
RECURSIVE Calls(_)
Calls(n) ==
    IF n = 0 THEN 0
    ELSE Calls(n - 1) + Len(out[n]) + (IF pc[n] = "suspended" THEN 1 ELSE 0)

CanInvoke(o) == pc[o] = "idle" /\ Calls(NumOps) < MaxCalls

\* handlers blocked in their select, receiving from channel ch
Waiting(ch) == {o \in Ops : pc[o] = "suspended" /\ ChanOpen(ch)}

\* senders blocked in their select, sending on channel ch
Pending(ch) == {s \in Senders : sender[s] = ch /\ ChanOpen(ch)}

\* deferred / subscription handler invoked, no case of the select is ready
HandlerSuspend(o) ==
    /\ Blocking(o) /\ CanInvoke(o)
    /\ ~ctxDone[o] /\ Pending("next") = {} /\ Pending("complete") = {}
    /\ pc' = [pc EXCEPT ![o] = "suspended"]
    /\ UNCHANGED buildVars
    /\ UNCHANGED <<server, initialResponse, ran, oneshot, ctxDone, callCtxDone,
                   panicked, out>>
    /\ UNCHANGED opVars /\ UNCHANGED sendVars

\* deferred / subscription handler invoked, select takes <-ctx.Done()
HandlerCtxDone(o) ==
    /\ Blocking(o) /\ CanInvoke(o)
    /\ ctxDone[o]
    /\ Finish(o, "ctx")
    /\ UNCHANGED buildVars
    /\ UNCHANGED <<server, ran, oneshot, ctxDone, panicked>>
    /\ UNCHANGED opVars /\ UNCHANGED sendVars

\* the invocation also drains the senders blocked on completeSubscription
HandlerRecvNextDrains(o, s) ==
    /\ Blocking(o) /\ CanInvoke(o)
    /\ s \in Pending("next")
    /\ Finish(o, "next")
    /\ sender' = [r \in Senders |->
                    IF r = s \/ sender[r] = "complete" THEN "idle" ELSE sender[r]]
    /\ delivered' = delivered + 1
    /\ completed' = completed + Cardinality(Pending("complete"))
    /\ UNCHANGED buildVars
    /\ UNCHANGED <<server, ran, oneshot, ctxDone, panicked, sends, warnings>>
    /\ UNCHANGED opVars

\* deferred / subscription handler invoked, select takes <-next from the
\* blocked sender s
HandlerRecvNext(o, s) ==
    /\ Blocking(o) /\ CanInvoke(o)
    /\ s \in Pending("next")
    /\ Finish(o, "next")
    /\ sender' = [sender EXCEPT ![s] = "idle"]
    /\ delivered' = delivered + 1
    /\ UNCHANGED buildVars
    /\ UNCHANGED <<server, ran, oneshot, ctxDone, panicked, sends, completed, warnings>>
    /\ UNCHANGED opVars

\* deferred / subscription handler invoked, select takes
\* <-completeSubscription from the blocked sender s
HandlerRecvComplete(o, s) ==
    /\ Blocking(o) /\ CanInvoke(o)
    /\ s \in Pending("complete")
    /\ Finish(o, "complete")
    /\ sender' = [sender EXCEPT ![s] = "idle"]
    /\ completed' = completed + 1
    /\ UNCHANGED buildVars
    /\ UNCHANGED <<server, ran, oneshot, ctxDone, panicked, sends, delivered, warnings>>
    /\ UNCHANGED opVars

\* cancel of the ctx given to ExecFunc; a handler suspended on it wakes
\* with case <-ctx.Done().  Only the deferred and subscription handlers
\* read that ctx.
Cancel(o) ==
    /\ Blocking(o) /\ ~ctxDone[o]
    /\ ctxDone' = [ctxDone EXCEPT ![o] = TRUE]
    /\ IF pc[o] = "suspended"
       THEN Finish(o, "ctx")
       ELSE UNCHANGED <<out, initialResponse, pc, callCtxDone>>
    /\ UNCHANGED buildVars
    /\ UNCHANGED <<server, ran, oneshot, panicked>>
    /\ UNCHANGED opVars /\ UNCHANGED sendVars

\* the handler selects on the context of the invocation
CancelCallWakes(o) ==
    /\ Blocking(o) /\ pc[o] = "suspended" /\ ~callCtxDone[o]
    /\ Finish(o, "ctx")
    /\ UNCHANGED buildVars
    /\ UNCHANGED <<server, ran, oneshot, ctxDone, panicked>>
    /\ UNCHANGED opVars /\ UNCHANGED sendVars

\* cancel of the context passed to the running invocation: the deferred
\* and subscription handlers name that parameter context and never read it
CancelCall(o) ==
    /\ Blocking(o) /\ pc[o] = "suspended" /\ ~callCtxDone[o]
    /\ callCtxDone' = [callCtxDone EXCEPT ![o] = TRUE]
    /\ UNCHANGED buildVars
    /\ UNCHANGED <<server, initialResponse, ran, oneshot, ctxDone, pc, panicked, out>>
    /\ UNCHANGED opVars /\ UNCHANGED sendVars

\* ------------------------------------------------ non-blocking handlers
\* the resolver the single-shot handler hands to ResolverMiddleware
Resolver == Response(NameTest, "absent", <<>>)

\* graphql.WithFieldContext(ctx, &graphql.FieldContext{...})
FieldContext == [object |-> "Query", name |-> "name", alias |-> "name"]

\* what the operation's ResolverMiddleware may do with the resolver: call
\* it and pass its result on, or return an error before or after calling it
Middlewares == {"pass", "errBefore", "errAfter"}

\* opCtx.ResolverMiddleware(ctx, resolver): whether the resolver was
\* called, and whether an error came back
ResolverMiddleware(mw) == [called |-> mw # "errBefore", err |-> mw # "pass"]

\* New(), query without @defer: runs once, inside the field context
\* Query.name; panics when ResolverMiddleware returns an error
HandlerSingle(o, mw) ==
    LET m == ResolverMiddleware(mw) IN
    /\ handler[o].strat = "single" /\ CanInvoke(o)
    /\ IF ran[o]
       THEN /\ out' = [out EXCEPT ![o] = Append(@, Returned("ran", Nil))]
            /\ UNCHANGED <<ran, panicked, resolved>>
       ELSE /\ ran' = [ran EXCEPT ![o] = TRUE]
            /\ resolved' = [resolved EXCEPT ![o] =
                              IF m.called THEN Append(@, FieldContext) ELSE @]
            /\ IF m.err
               THEN /\ panicked' = [panicked EXCEPT ![o] = TRUE]
                    /\ UNCHANGED out
               ELSE /\ out' = [out EXCEPT ![o] =
                                 Append(@, Returned("first", Resolver))]
                    /\ UNCHANGED panicked
    /\ UNCHANGED buildVars
    /\ UNCHANGED <<server, initialResponse, oneshot, ctxDone, callCtxDone, pc>>
    /\ UNCHANGED <<kind, raw, handler>> /\ UNCHANGED sendVars

\* graphql.AddError(ctx, err): the error joins the errors of the response
AddError(errors, msg) == Append(errors, msg)

\* the recorded error ends the response: nil instead of data null
HandlerErrQueryNoData(o) ==
    /\ handler[o].strat = "errQuery" /\ CanInvoke(o)
    /\ ran' = [ran EXCEPT ![o] = TRUE]
    /\ out' = [out EXCEPT ![o] = Append(@, Returned(IF ran[o] THEN "ran" ELSE "first", Nil))]
    /\ UNCHANGED buildVars
    /\ UNCHANGED <<server, initialResponse, oneshot, ctxDone, callCtxDone, pc, panicked>>
    /\ UNCHANGED opVars /\ UNCHANGED sendVars

\* NewError(), query: records "resolver error" and returns data null
HandlerErrQuery(o) ==
    /\ handler[o].strat = "errQuery" /\ CanInvoke(o)
    /\ IF ran[o]
       THEN /\ out' = [out EXCEPT ![o] = Append(@, Returned("ran", Nil))]
            /\ UNCHANGED ran
       ELSE /\ ran' = [ran EXCEPT ![o] = TRUE]
            /\ out' = [out EXCEPT ![o] =
                         Append(@, Returned("first",
                                            Response("null", "absent",
                                                     AddError(<<>>, "resolver error"))))]
    /\ UNCHANGED buildVars
    /\ UNCHANGED <<server, initialResponse, oneshot, ctxDone, callCtxDone, pc, panicked>>
    /\ UNCHANGED opVars /\ UNCHANGED sendVars

\* graphql.OneShot(resp): resp on the first invocation, nil afterwards
OneShot(fired, resp) ==
    IF fired THEN [resp |-> Nil, fired |-> TRUE] ELSE [resp |-> resp, fired |-> TRUE]

\* the handler graphql.OneShot(graphql.ErrorResponse(ctx, msg)) invoked
HandlerOneShot(o) ==
    LET r == OneShot(oneshot[o], ErrorResponse(handler[o].msg)) IN
    /\ handler[o].strat = "oneshot" /\ CanInvoke(o)
    /\ out' = [out EXCEPT ![o] =
                 Append(@, Returned(IF oneshot[o] THEN "ran" ELSE "first", r.resp))]
    /\ oneshot' = [oneshot EXCEPT ![o] = r.fired]
    /\ UNCHANGED buildVars
    /\ UNCHANGED <<server, initialResponse, ran, ctxDone, callCtxDone, pc, panicked>>
    /\ UNCHANGED opVars /\ UNCHANGED sendVars

\* ------------------------------------------------------ trigger senders
\* the sender never finds the suspended handler and blocks
SendAlwaysBlocks(s, ch, c) ==
    /\ sender[s] = "idle" /\ sends < MaxSends
    /\ \A r \in Senders : r < s => sender[r] # "idle"
    /\ sends' = sends + 1
    /\ sender' = [sender EXCEPT ![s] = ch]
    /\ UNCHANGED <<out, initialResponse, pc, callCtxDone, delivered, completed>>
    /\ UNCHANGED buildVars
    /\ UNCHANGED <<server, ran, oneshot, ctxDone, panicked, warnings>>
    /\ UNCHANGED opVars

\* the trigger wakes every suspended handler, as a closed channel would
SendBroadcast(s, ch, c) ==
    /\ sender[s] = "idle" /\ sends < MaxSends
    /\ \A r \in Senders : r < s => sender[r] # "idle"
    /\ sends' = sends + 1
    /\ IF Waiting(ch) # {}
       THEN /\ out' = [o \in Ops |->
                        IF o \in Waiting(ch)
                        THEN Append(out[o], Returned(c, SelectCase(o, c).resp))
                        ELSE out[o]]
            /\ initialResponse' = [o \in Ops |->
                        IF o \in Waiting(ch) THEN SelectCase(o, c).init
                        ELSE initialResponse[o]]
            /\ pc' = [o \in Ops |-> "idle"]
            /\ callCtxDone' = [o \in Ops |-> FALSE]
            /\ delivered' = IF c = "next" THEN delivered + 1 ELSE delivered
            /\ completed' = IF c = "complete" THEN completed + 1 ELSE completed
            /\ UNCHANGED sender
       ELSE /\ sender' = [sender EXCEPT ![s] = ch]
            /\ UNCHANGED <<out, initialResponse, pc, callCtxDone, delivered, completed>>
    /\ UNCHANGED buildVars
    /\ UNCHANGED <<server, ran, oneshot, ctxDone, panicked, warnings>>
    /\ UNCHANGED opVars

\* select { case ch <- struct{}{}: ; case <-time.After(1 * time.Second): }
\* a suspended handler receives at once, otherwise the sender blocks;
\* idle senders are alike, the lowest one makes the call
Send(s, ch, c) ==
    /\ sender[s] = "idle" /\ sends < MaxSends
    /\ \A r \in Senders : r < s => sender[r] # "idle"
    /\ sends' = sends + 1
    /\ IF Waiting(ch) # {}
       THEN /\ \E o \in Waiting(ch) : Finish(o, c)
            /\ delivered' = IF c = "next" THEN delivered + 1 ELSE delivered
            /\ completed' = IF c = "complete" THEN completed + 1 ELSE completed
            /\ UNCHANGED sender
       ELSE /\ sender' = [sender EXCEPT ![s] = ch]
            /\ UNCHANGED <<out, initialResponse, pc, callCtxDone, delivered, completed>>
    /\ UNCHANGED buildVars
    /\ UNCHANGED <<server, ran, oneshot, ctxDone, panicked, warnings>>
    /\ UNCHANGED opVars

SendNextSubscriptionMessage(s) == Send(s, "next", "next")

SendCompleteSubscriptionMessage(s) == Send(s, "complete", "complete")

\* the send has no timeout case
TimeoutMissing(s) ==
    /\ sender[s] # "idle"
    /\ FALSE
    /\ UNCHANGED vars

\* the timed-out trigger stays on offer
TimeoutKeepsTrigger(s) ==
    /\ sender[s] # "idle" /\ warnings < MaxSends
    /\ warnings' = warnings + 1
    /\ UNCHANGED buildVars
    /\ UNCHANGED <<server, initialResponse, ran, oneshot, ctxDone, callCtxDone, pc,
                   panicked, out, sender, sends, delivered, completed>>
    /\ UNCHANGED opVars

\* case <-time.After(1 * time.Second) of a blocked sender
Timeout(s) ==
    /\ sender[s] # "idle"
    /\ sender' = [sender EXCEPT ![s] = "idle"]
    /\ warnings' = warnings + 1
    /\ UNCHANGED buildVars
    /\ UNCHANGED <<server, initialResponse, ran, oneshot, ctxDone, callCtxDone, pc,
                   panicked, out, sends, delivered, completed>>
    /\ UNCHANGED opVars

Next ==
    \/ \E o \in Ops : \E k \in Kinds : \E q \in RawQueries : ExecFunc(o, k, q)
    \/ \E o \in Ops : \E mw \in Middlewares : HandlerSingle(o, mw)
    \/ \E o \in Ops : HandlerErrQuery(o)
    \/ \E o \in Ops : HandlerOneShot(o)
    \/ \E o \in Ops : HandlerSuspend(o)
    \/ \E o \in Ops : HandlerCtxDone(o)
    \/ \E o \in Ops : \E s \in Senders : HandlerRecvNext(o, s)
    \/ \E o \in Ops : \E s \in Senders : HandlerRecvComplete(o, s)
    \/ \E o \in Ops : Cancel(o)
    \/ \E o \in Ops : CancelCall(o)
    \/ \E s \in Senders : SendNextSubscriptionMessage(s)
    \/ \E s \in Senders : SendCompleteSubscriptionMessage(s)
    \/ \E s \in Senders : Timeout(s)

Spec == Init /\ [][Next]_vars

\* time.After always fires: a blocked sender is never left waiting on it
LiveSpec == Init /\ [][Next]_vars /\ \A s \in Senders : WF_vars(Timeout(s))

\* -------------------------------------------------------- buildInterface
MaxTypes == 3       \* possible types GetPossibleTypes returns

\* type names, as byte strings
Names == {<<1>>, <<1, 1>>, <<1, 2>>, <<2>>, <<2, 1>>}

\* Interfaces of an ast.Definition: the names of the interfaces it implements
InterfaceLists == {<<>>, <<"Node">>, <<"Entity">>, <<"Node", "Entity">>}

Definitions == [Name : Names, Interfaces : InterfaceLists]

\* the Go type b.Binder.DefaultUserObject finds for a name: a struct whose
\* methods have value receivers, one whose methods have pointer receivers,
\* an interface, a type without the methods, or none at all
Binder ==
    [n \in Names |->
        CASE n = <<1>> -> "pointerReceiver"
          [] n = <<1, 1>> -> "unbound"
          [] n = <<1, 2>> -> "valueReceiver"
          [] n = <<2>> -> "interface"
          [] n = <<2, 1>> -> "noMethods"]

\* types.Implements(implementorType, interfaceType)
ImplementsValue(n) == Binder[n] \in {"valueReceiver", "interface"}

\* types.Implements(types.NewPointer(implementorType), interfaceType)
ImplementsPointer(n) == Binder[n] \in {"valueReceiver", "pointerReceiver"}

\* types.IsInterface(obj)
IsInterface(n) == Binder[n] = "interface"

\* a > b on Go strings: bytewise, a proper prefix being the smaller
RECURSIVE StringGreater(_, _)
StringGreater(a, b) ==
    IF a = <<>> THEN FALSE
    ELSE IF b = <<>> THEN TRUE
    ELSE IF Head(a) # Head(b) THEN Head(a) > Head(b)
    ELSE StringGreater(Tail(a), Tail(b))

\* the comparison looks at the names only
LessByName(a, b) == StringGreater(a.Name, b.Name)

\* the less function given to sort.SliceStable
Less(a, b) ==
    IF Len(a.Interfaces) # Len(b.Interfaces)
    THEN Len(a.Interfaces) > Len(b.Interfaces)
    ELSE StringGreater(a.Name, b.Name)

\* insertion of s[j] into the sorted s[1..j-1], by swaps of neighbours
RECURSIVE Insert(_, _)
Insert(s, j) ==
    IF j > 1 /\ Less(s[j], s[j - 1])
    THEN Insert([s EXCEPT ![j] = s[j - 1], ![j - 1] = s[j]], j - 1)
    ELSE s

RECURSIVE InsertionSort(_, _)
InsertionSort(s, i) ==
    IF i > Len(s) THEN s ELSE InsertionSort(Insert(s, i), i + 1)

\* sort.SliceStable: an insertion sort for slices this short
SliceStable(s) == InsertionSort(s, 2)

InterfaceImplementor(def, pointer, takeRef) ==
    [Definition |-> def, Pointer |-> pointer, TakeRef |-> takeRef]

\* the body of the range loop for one implementor
AppendImplementors(acc, def) ==
    LET withValue ==
            IF ImplementsValue(def.Name)
            THEN Append(acc, InterfaceImplementor(def, FALSE, ~IsInterface(def.Name)))
            ELSE acc
    IN  IF ImplementsPointer(def.Name)
        THEN Append(withValue, InterfaceImplementor(def, TRUE, FALSE))
        ELSE withValue

\* anyValid at the end of the loop body, false too when no Go type is bound
AnyValid(def) == ImplementsValue(def.Name) \/ ImplementsPointer(def.Name)

\* the range loop over a sorted slice
RECURSIVE RangeImplementors(_, _)
RangeImplementors(s, acc) ==
    IF s = <<>> THEN acc
    ELSE RangeImplementors(Tail(s), AppendImplementors(acc, Head(s)))

\* i.Implementors of the *Interface buildInterface returns for these types
BuildImplementors(s) == RangeImplementors(SliceStable(s), <<>>)

PossibleTypes == UNION {[1..n -> Definitions] : n \in 0..MaxTypes}

BuildInit ==
    /\ server = "New"
    /\ NoOperation
    /\ possibleTypes = <<>>
    /\ implementors = <<>>
    /\ Implementors = <<>>
    /\ idx = 0
    /\ bpc = "start"

\* implementors := b.Schema.GetPossibleTypes(typ)
GetPossibleTypes ==
    /\ bpc = "start"
    /\ possibleTypes' \in PossibleTypes
    /\ implementors' = possibleTypes'
    /\ bpc' = "sort"
    /\ UNCHANGED <<Implementors, idx>>
    /\ UNCHANGED serverVars

\* sort.SliceStable(implementors, ...)
SortImplementors ==
    /\ bpc = "sort"
    /\ implementors' = SliceStable(implementors)
    /\ idx' = 1
    /\ bpc' = "range"
    /\ UNCHANGED <<possibleTypes, Implementors>>
    /\ UNCHANGED serverVars

\* one iteration of for _, implementor := range implementors
RangeStep ==
    /\ bpc = "range" /\ idx <= Len(implementors)
    /\ IF AnyValid(implementors[idx])
       THEN /\ Implementors' = AppendImplementors(Implementors, implementors[idx])
            /\ idx' = idx + 1
            /\ UNCHANGED bpc
       ELSE /\ bpc' = "error"
            /\ UNCHANGED <<Implementors, idx>>
    /\ UNCHANGED <<possibleTypes, implementors>>
    /\ UNCHANGED serverVars

\* return i, nil
ReturnInterface ==
    /\ bpc = "range" /\ idx > Len(implementors)
    /\ bpc' = "done"
    /\ UNCHANGED <<possibleTypes, implementors, Implementors, idx>>
    /\ UNCHANGED serverVars

BuildNext ==
    \/ GetPossibleTypes
    \/ SortImplementors
    \/ RangeStep
    \/ ReturnInterface

BuildSpec == BuildInit /\ [][BuildNext]_vars

\* ------------------------------------------------------------ properties
IsEnvelope(e) == ~e.resp.isNil

\* the invocations of o that returned a response, in order
Envelopes(o) == SelectSeq(out[o], IsEnvelope)

Deferred(o) == handler[o].strat = "deferred"
Subscription(o) == handler[o].strat = "subscription"

RECURSIVE SumEmitted(_)
SumEmitted(n) ==
    IF n = 0 THEN 0
    ELSE SumEmitted(n - 1) + (IF Blocking(n) THEN Len(Envelopes(n)) ELSE 0)

BlockedSenders == {s \in Senders : sender[s] # "idle"}

\* C1: once an invocation of a handler has returned nil, every later
\* invocation of that handler returns nil too
C1_IdempotentClose ==
    \A o \in Ops : \A i, j \in 1..Len(out[o]) :
        (i < j /\ out[o][i].resp.isNil) => out[o][j].resp.isNil

\* C2: the deferred and subscription handlers have returned exactly as many
\* responses as sends on next were received
C2_OneEnvelopePerTrigger == SumEmitted(NumOps) = delivered

C2_Witness ==
    /\ delivered >= 3
    /\ \E o \in Ops : Deferred(o) /\ Len(Envelopes(o)) >= 2
    /\ \E o \in Ops : Subscription(o) /\ Len(Envelopes(o)) >= 1

\* C3: a deferred handler answers its first received next with
\* {"name":null}, hasNext true, its second with {"name":"test"}, hasNext
\* false, and returns no hasNext false before a hasNext true
C3_TwoPartOrdering ==
    \A o \in Ops : Deferred(o) =>
        LET env == Envelopes(o) IN
        /\ \A i \in 1..Len(out[o]) : IsEnvelope(out[o][i]) <=> out[o][i].case = "next"
        /\ Len(env) >= 1 => env[1].resp = Response(NameNull, "true", <<>>)
        /\ Len(env) >= 2 => env[2].resp = Response(NameTest, "false", <<>>)
        /\ \A j \in 1..Len(env) :
             env[j].resp.hasNext = "false" =>
                 \E i \in 1..(j - 1) : env[i].resp.hasNext = "true"

C3_Witness ==
    \E o \in Ops : Deferred(o) /\ Len(Envelopes(o)) = 2 /\ Len(out[o]) = 3

\* C4: after a deferred handler has returned its hasNext false response,
\* every later invocation returns nil (so no second hasNext false response)
C4_TerminalAfterFinal ==
    \A o \in Ops : Deferred(o) =>
        \A i, j \in 1..Len(out[o]) :
            (i < j /\ IsEnvelope(out[o][i]) /\ out[o][i].resp.hasNext = "false")
                => out[o][j].resp.isNil

\* C5: an invocation of a deferred or subscription handler that returns
\* with ctx cancelled (cancelled while it was suspended, or before its
\* select ran) returns nil, whatever senders are blocked
C5_CancelWins ==
    [][\A o \in Ops :
         (Blocking(o) /\ ctxDone'[o] /\ Len(out'[o]) = Len(out[o]) + 1)
             => out'[o][Len(out'[o])].resp.isNil]_vars

\* C6: after a subscription handler has returned through complete or
\* ctx.Done(), no later invocation returns a response
C6_StreamEndPermanent ==
    \A o \in Ops : Subscription(o) =>
        \A i, j \in 1..Len(out[o]) :
            (i < j /\ out[o][i].case \in {"complete", "ctx"}) => out[o][j].resp.isNil

\* C7: a subscription handler returns a response exactly for the sends on
\* next it received, each {"name":"test"} with no hasNext and no errors
C7_StreamingDelivery ==
    \A o \in Ops : Subscription(o) =>
        \A i \in 1..Len(out[o]) :
            /\ out[o][i].case = "next" <=> IsEnvelope(out[o][i])
            /\ IsEnvelope(out[o][i]) =>
                 out[o][i].resp = Response(NameTest, "absent", <<>>)

C7_Witness ==
    \E o \in Ops : Subscription(o) /\ Len(Envelopes(o)) = MaxCalls

\* C8: a deferred handler that receives complete returns nil, emits
\* nothing and keeps its phase, before and after its first response
C8_AbruptClose ==
    [][\A o \in Ops :
         (/\ Deferred(o)
          /\ Len(out'[o]) = Len(out[o]) + 1
          /\ out'[o][Len(out'[o])].case = "complete")
         => /\ out'[o][Len(out'[o])].resp.isNil
            /\ initialResponse'[o] = initialResponse[o]
            /\ SelectSeq(out'[o], IsEnvelope) = Envelopes(o)]_vars

C8_Witness ==
    \E o \in Ops :
        /\ Deferred(o) /\ Len(out[o]) = 3
        /\ out[o][1].case = "complete" /\ out[o][2].case = "next"
        /\ out[o][3].case = "complete" /\ Len(Envelopes(o)) = 1

\* C9: a blocked sender always returns; every call that returned was either
\* received or printed the warning, and on a NewError server none is received
C9_BoundedWaitSend ==
    /\ \A s \in Senders : (sender[s] # "idle") ~> (sender[s] = "idle")
    /\ [](sends = delivered + completed + warnings + Cardinality(BlockedSenders))
    /\ [](server = "NewError" => delivered = 0 /\ completed = 0)

C9_Witness ==
    /\ server = "NewError" /\ warnings >= 2 /\ BlockedSenders = {}
    /\ \E o \in Ops : handler[o].strat = "oneshot" /\ kind[o] = "subscription"

\* C10: a send that times out leaves every handler's state and output as
\* they were, and its trigger is no longer on offer
C10_FailedSendNoEffect ==
    [][warnings' # warnings =>
         /\ out' = out /\ pc' = pc
         /\ initialResponse' = initialResponse /\ ran' = ran /\ oneshot' = oneshot
         /\ delivered' = delivered /\ completed' = completed
         /\ \E s \in BlockedSenders :
              {r \in Senders : sender'[r] # "idle"} = BlockedSenders \ {s}]_vars

C10_Witness ==
    /\ warnings >= 1
    /\ \E o \in Ops : Deferred(o) /\ ~initialResponse[o] /\ pc[o] = "suspended"

Created(o) == handler[o].strat # "none"

\* C11: a mutation, and an operation of no known kind, gets a handler that
\* never waits, returns one response with exactly one error on its first
\* invocation ("mutations are not supported", else "unsupported GraphQL
\* operation") and nil on every later one
C11_RejectedKinds ==
    \A o \in Ops : (Created(o) /\ kind[o] \in {"mutation", "other"}) =>
        /\ pc[o] = "idle"
        /\ \A i \in 1..Len(out[o]) :
             IF i = 1
             THEN /\ IsEnvelope(out[o][i])
                  /\ Len(out[o][i].resp.errors) = 1
                  /\ out[o][i].resp.errors[1] =
                       (IF kind[o] = "mutation" THEN "mutations are not supported"
                                                ELSE "unsupported GraphQL operation")
             ELSE out[o][i].resp.isNil

C11_Witness ==
    /\ \E o \in Ops : kind[o] = "mutation" /\ Len(out[o]) = 2
    /\ \E o \in Ops : kind[o] = "other" /\ Len(out[o]) = 1

\* C12: the single-shot handler, once invoked, has run the resolver exactly
\* once, in the field context Query.name, and returned {"name":"test"} with
\* no hasNext first and nil ever after
C12_SingleShotRunsOnce ==
    \A o \in Ops : handler[o].strat = "single" =>
        /\ ~ran[o] => (out[o] = <<>> /\ resolved[o] = <<>>)
        /\ ran[o] =>
             /\ Len(resolved[o]) = 1
             /\ resolved[o][1].object = "Query" /\ resolved[o][1].name = "name"
             /\ Len(out[o]) >= 1
             /\ out[o][1].resp = Response(NameTest, "absent", <<>>)
        /\ \A i \in 2..Len(out[o]) : out[o][i].resp.isNil

\* C13: no handler invocation ever ends in a panic
C13_NoPanic == \A o \in Ops : ~panicked[o]

\* the text q holds the characters of "@defer" in a row somewhere
HasMarker(q) ==
    \E i \in 1..Len(q) :
        /\ i + 5 <= Len(q)
        /\ q[i] = "@" /\ q[i + 1] = "d" /\ q[i + 2] = "e"
        /\ q[i + 3] = "f" /\ q[i + 4] = "e" /\ q[i + 5] = "r"

\* C14: on a New() server a query gets the deferred handler exactly when
\* its raw text holds "@defer", and the single-shot handler otherwise
C14_QueryStrategy ==
    \A o \in Ops : (server = "New" /\ Created(o) /\ kind[o] = "query") =>
        /\ handler[o].strat = "deferred" <=> HasMarker(raw[o])
        /\ handler[o].strat = "single" <=> ~HasMarker(raw[o])

C14_Witness ==
    /\ \E o \in Ops : raw[o] = QueryDefer /\ Deferred(o) /\ pc[o] = "suspended"
    /\ \E o \in Ops : raw[o] = QueryPlain /\ handler[o].strat = "single"
                      /\ Len(out[o]) = 1

\* C15 as stated: on every server a subscription gets the subscription
\* (streaming) handler
C15_SubscriptionStreaming ==
    \A o \in Ops : (Created(o) /\ kind[o] = "subscription") => Subscription(o)

\* C15 amended: on a New() server a subscription gets the streaming
\* handler, which answers each received next with a response; on a
\* NewError() server it gets the one-shot error handler
C15_SubscriptionStreamingOnNew ==
    \A o \in Ops : (Created(o) /\ kind[o] = "subscription") =>
        IF server = "New"
        THEN /\ Subscription(o)
             /\ \A i \in 1..Len(out[o]) :
                  out[o][i].case = "next" => IsEnvelope(out[o][i])
        ELSE /\ handler[o] = [strat |-> "oneshot", msg |-> "subscription are not supported"]
             /\ pc[o] = "idle"

C15_Witness ==
    \E o \in Ops :
        /\ server = "New" /\ kind[o] = "subscription"
        /\ Len(Envelopes(o)) = 2 /\ pc[o] = "suspended"

\* C16: on a NewError() server a query gets the handler that returns, on
\* its first invocation, data null together with the error "resolver
\* error", and nil on every later invocation
C16_ResolverErrorWithData ==
    \A o \in Ops : (server = "NewError" /\ Created(o) /\ kind[o] = "query") =>
        /\ handler[o].strat = "errQuery"
        /\ ran[o] <=> Len(out[o]) >= 1
        /\ \A i \in 1..Len(out[o]) :
             IF i = 1
             THEN out[o][i].resp = Response("null", "absent", <<"resolver error">>)
             ELSE out[o][i].resp.isNil

C16_Witness ==
    \E o \in Ops : handler[o].strat = "errQuery" /\ Len(out[o]) = 3

\* the last invocation of o that returned
Last(o) == out[o][Len(out[o])]

\* C17: one step of a handler receives from at most one of next and
\* completeSubscription: at most one blocked sender is released, by the one
\* invocation that returns, and any other blocked sender stays blocked
C17_OneTriggerPerInvocation ==
    [][LET received == (delivered' + completed') - (delivered + completed)
           grew == {o \in Ops : Len(out'[o]) = Len(out[o]) + 1}
       IN  /\ received \in {0, 1}
           /\ Cardinality(BlockedSenders \ BlockedSenders') <= 1
           /\ \A o \in Ops : out'[o] # out[o] => o \in grew
           /\ Cardinality(grew) <= 1
           /\ received = 1 => Cardinality(grew) = 1
           /\ (received = 1 /\ warnings' = warnings /\ sends' = sends)
                => Cardinality(BlockedSenders') = Cardinality(BlockedSenders) - 1]_vars

C17_Witness ==
    /\ sender[1] = "idle" /\ sender[2] = "complete"
    /\ sends = 2 /\ warnings = 0 /\ delivered = 1 /\ completed = 0

\* C18: no sender is blocked while a handler is suspended, and a Send call
\* made while a handler is suspended returns at once without the warning,
\* the trigger going to one suspended handler whose invocation returns: a
\* response for next, nil for complete
C18_DeliveryToWaiting ==
    /\ [](\A o \in Ops : pc[o] = "suspended" => (~ctxDone[o] /\ BlockedSenders = {}))
    /\ [][(sends' = sends + 1 /\ \E o \in Ops : pc[o] = "suspended") =>
            /\ warnings' = warnings /\ sender' = sender
            /\ \E o \in Ops :
                 /\ pc[o] = "suspended" /\ pc'[o] = "idle"
                 /\ Len(out'[o]) = Len(out[o]) + 1
                 /\ Last(o)'.case \in {"next", "complete"}
                 /\ Last(o)'.case = "next" <=> IsEnvelope(Last(o)')
                 /\ Last(o)'.case = "next" <=> delivered' = delivered + 1
                 /\ Last(o)'.case = "complete" <=> completed' = completed + 1]_vars

C18_Witness ==
    /\ sends = 1 /\ completed = 1 /\ warnings = 0 /\ BlockedSenders = {}
    /\ \E o \in Ops : pc[o] = "idle" /\ Len(out[o]) = 1 /\ Last(o).case = "complete"
    /\ \E o \in Ops : pc[o] = "suspended"

\* a Send call on next that hands its trigger to the suspended handler o
DeliverTo(o) ==
    \E s \in Senders : SendNextSubscriptionMessage(s) /\ pc'[o] = "idle"

\* C19: the channels are the server's: a received trigger makes exactly one
\* handler return and leaves every other handler as it was, any suspended
\* handler may be the one, and over all operations the responses of the
\* deferred and subscription handlers number the received sends on next
C19_SharedChannels ==
    /\ [](SumEmitted(NumOps) = delivered)
    /\ []((sends < MaxSends /\ BlockedSenders = {}) =>
            \A o \in Waiting("next") : ENABLED DeliverTo(o))
    /\ [][(delivered' + completed' # delivered + completed) =>
            \E o \in Ops :
                /\ Blocking(o) /\ Len(out'[o]) = Len(out[o]) + 1
                /\ \A p \in Ops \ {o} : out'[p] = out[p] /\ pc'[p] = pc[p]]_vars

C19_Witness ==
    /\ delivered = 1 /\ sends = 1
    /\ pc[1] = "suspended" /\ Len(out[1]) = 0
    /\ pc[2] = "idle" /\ Len(out[2]) = 1 /\ Last(2).case = "next"

\* C20: cancelling the context passed to an invocation leaves the handler
\* suspended; cancelling the ctx given to ExecFunc makes a suspended
\* invocation return nil, and every later one can return nil through
\* <-ctx.Done(), which no invocation takes while that ctx is live
C20_CapturedContext ==
    /\ [][\A o \in Ops : (callCtxDone'[o] /\ ~callCtxDone[o]) =>
            (pc[o] = "suspended" /\ pc'[o] = "suspended" /\ out' = out)]_vars
    /\ [][\A o \in Ops : (ctxDone'[o] /\ ~ctxDone[o] /\ pc[o] = "suspended") =>
            (pc'[o] = "idle" /\ Last(o)' = Returned("ctx", Nil)
             /\ Len(out'[o]) = Len(out[o]) + 1)]_vars
    /\ [](\A o \in Ops : (Blocking(o) /\ ctxDone[o] /\ CanInvoke(o)) =>
            ENABLED HandlerCtxDone(o))
    /\ [](\A o \in Ops : \A i \in 1..Len(out[o]) :
            out[o][i].case = "ctx" => ctxDone[o])

C20_Witness ==
    \E o \in Ops : pc[o] = "suspended" /\ callCtxDone[o] /\ Len(out[o]) = 1

\* the definitions come by interface count descending, then name descending
Ordered(defs) ==
    \A k, l \in 1..Len(defs) : k < l =>
        \/ Len(defs[k].Interfaces) > Len(defs[l].Interfaces)
        \/ /\ Len(defs[k].Interfaces) = Len(defs[l].Interfaces)
           /\ ~StringGreater(defs[l].Name, defs[k].Name)

DefinitionsOf(impls) == [k \in 1..Len(impls) |-> impls[k].Definition]

DistinctNames(s) ==
    \A k, l \in 1..Len(s) : s[k].Name = s[l].Name => k = l

\* the orders GetPossibleTypes could have returned the same types in
Reorderings(s) ==
    {[k \in 1..Len(s) |-> s[f[k]]] : f \in Permutations(1..Len(s))}

\* C21: whatever order the possible types come in, the sorted slice and
\* the Implementors appended so far are ordered by interface count
\* descending, then name descending; a type's value entry is directly
\* followed by its pointer entry; and every reordering of distinctly named
\* types builds the list that was returned
C21_ImplementorOrder ==
    /\ bpc \in {"range", "done", "error"} =>
         /\ Ordered(implementors)
         /\ implementors \in Reorderings(possibleTypes)
    /\ bpc \in {"range", "done"} =>
         /\ Ordered(DefinitionsOf(Implementors))
         /\ \A k \in 1..Len(Implementors) :
              /\ (~Implementors[k].Pointer
                    /\ ImplementsPointer(Implementors[k].Definition.Name)) =>
                   /\ k < Len(Implementors)
                   /\ Implementors[k + 1].Pointer
                   /\ Implementors[k + 1].Definition = Implementors[k].Definition
              /\ (Implementors[k].Pointer
                    /\ ImplementsValue(Implementors[k].Definition.Name)) =>
                   /\ k > 1
                   /\ ~Implementors[k - 1].Pointer
                   /\ Implementors[k - 1].Definition = Implementors[k].Definition
    /\ (bpc = "done" /\ DistinctNames(possibleTypes)) =>
         \A p \in Reorderings(possibleTypes) : BuildImplementors(p) = Implementors

C21_Witness ==
    /\ bpc = "done" /\ Len(possibleTypes) = 3
    /\ DistinctNames(possibleTypes)
    /\ ~Ordered(possibleTypes)
    /\ \E k, l \in 1..3 :
          /\ k # l
          /\ Len(possibleTypes[k].Interfaces) = Len(possibleTypes[l].Interfaces)
    /\ \E k, l \in 1..3 :
          Len(possibleTypes[k].Interfaces) # Len(possibleTypes[l].Interfaces)
    /\ \E k \in 1..Len(Implementors) :
          /\ ~Implementors[k].Pointer
          /\ ImplementsPointer(Implementors[k].Definition.Name)
====
